---- MODULE Spec2Model ----
(***************************************************************************)
(* A model of the Grafix part of emoji.js: the time keeper, the frame-rate *)
(* estimator, the primitive and composite drawers and the diagnostics      *)
(* compositor, with a recording 2D drawing surface.                        *)
(***************************************************************************)
EXTENDS Integers, Sequences, FiniteSets, TLC

VARIABLES
    timeKeeper,        \* [frameCount, generationCount, cycleCount]
    frameRateProps,    \* [fps, times, counter]
    buttonBarToggles,  \* the five show* flags
    mouseProps,        \* [mouseX, mouseY]
    canvas,            \* [width, height]
    ctx,               \* the 2D context: style, save stack, calls of the last operation
    listening,         \* the canvas has the mousemove listener of initGrafix
    bar,               \* buttonBar() has built the toggle buttons
    op,                \* the operation that ran last
    genCalls,          \* countGenerations calls since initTimeKeeper
    countFramesCalls,  \* countFrames calls since initTimeKeeper
    frameCalls,        \* drawFrameRate calls so far
    onGrid,            \* every timestamp so far was 0, 100, 200, ... in order
    lastMove,          \* the offsets of the latest mousemove event, <<0, 0>> if none
    asked              \* the toggles as initGrafix and the clicks so far ask for

vars == <<timeKeeper, frameRateProps, buttonBarToggles, mouseProps, canvas, ctx,
          listening, bar,
          op, genCalls, countFramesCalls, frameCalls, onGrid, lastMove, asked>>

----------------------------------------------------------------------------
(* Bounds of the model *)

\* Number.MAX_SAFE_INTEGER is 2^53 - 1; the model keeps its shape, 2^Width - 1.
Width == 4

\* The render clock of the frame-rate runs stops here (milliseconds).
MaxTime == 2200

----------------------------------------------------------------------------
(* Time keeper *)

MAX_SAFE_INTEGER == 2^Width - 1

\* No more calls of a counter are counted than two wraps need.
MaxGenCalls == 2 * MAX_SAFE_INTEGER + 2

timeKeeperInit == [frameCount |-> 0, generationCount |-> 0, cycleCount |-> 0]

\* n += 1; if (n == Number.MAX_SAFE_INTEGER) n = 0;
WrapAfterMax(n) == IF n = MAX_SAFE_INTEGER THEN 0 ELSE n + 1
WrapIncrement(n) == IF n + 1 = MAX_SAFE_INTEGER THEN 0 ELSE n + 1

\* Math.floor(generationCount / 4)
CycleStale(g) == (g - 1) \div 4
CycleOf(g) == g \div 4

\* An operation that draws nothing makes no call on the context.
NoCalls == <<>>

UnchangedDrawing ==
    /\ ctx' = [ctx EXCEPT !.calls = NoCalls]
    /\ UNCHANGED <<frameRateProps, buttonBarToggles, mouseProps, canvas,
                   listening, bar, frameCalls, onGrid, lastMove, asked>>

initTimeKeeper ==
    /\ timeKeeper' = timeKeeperInit
    /\ genCalls' = 0
    /\ countFramesCalls' = 0
    /\ op' = "initTimeKeeper"
    /\ UnchangedDrawing

countGenerations ==
    /\ genCalls < MaxGenCalls
    /\ LET g == WrapIncrement(timeKeeper.generationCount)
       IN  timeKeeper' = [timeKeeper EXCEPT !.generationCount = g,
                                            !.cycleCount = CycleOf(g)]
    /\ genCalls' = genCalls + 1
    /\ op' = "countGenerations"
    /\ UNCHANGED countFramesCalls
    /\ UnchangedDrawing

countFramesOnGenerations ==
    /\ countFramesCalls < MaxGenCalls
    /\ timeKeeper' = [timeKeeper EXCEPT
                        !.generationCount = WrapIncrement(timeKeeper.generationCount)]
    /\ countFramesCalls' = countFramesCalls + 1
    /\ op' = "countFrames"
    /\ UNCHANGED genCalls
    /\ UnchangedDrawing

countFrames ==
    /\ countFramesCalls < MaxGenCalls
    /\ timeKeeper' = [timeKeeper EXCEPT
                        !.frameCount = WrapIncrement(timeKeeper.frameCount)]
    /\ countFramesCalls' = countFramesCalls + 1
    /\ op' = "countFrames"
    /\ UNCHANGED genCalls
    /\ UnchangedDrawing

----------------------------------------------------------------------------
(* The drawing surface: a CanvasRenderingContext2D that records its calls *)

StyleOf(c) == [strokeStyle |-> c.strokeStyle, lineWidth |-> c.lineWidth,
               fillStyle |-> c.fillStyle, font |-> c.font]

\* One call on the context, or one assignment to a property of it
Call(name, x, y, text) == [op |-> name, x |-> x, y |-> y, text |-> text]

save == Call("save", 0, 0, "")
restore == Call("restore", 0, 0, "")
beginPath == Call("beginPath", 0, 0, "")
stroke == Call("stroke", 0, 0, "")
moveTo(x, y) == Call("moveTo", x, y, "")
lineTo(x, y) == Call("lineTo", x, y, "")
fillText(text, x, y) == Call("fillText", x, y, text)
SetLineWidth(w) == Call("lineWidth", w, 0, "")
SetStrokeStyle(v) == Call("strokeStyle", 0, 0, v)
SetFillStyle(v) == Call("fillStyle", 0, 0, v)
SetFont(v) == Call("font", 0, 0, v)

\* What one call does to the context: save pushes the style state, restore
\* pops it (and does nothing on an empty stack), an assignment sets a property.
Step(c, call) ==
    LET r == [c EXCEPT !.calls = Append(@, call)]
        n == Len(c.stack)
    IN  CASE call.op = "save" -> [r EXCEPT !.stack = Append(@, StyleOf(c))]
          [] call.op = "restore" ->
                IF n = 0 THEN r
                ELSE [r EXCEPT !.strokeStyle = c.stack[n].strokeStyle,
                               !.lineWidth = c.stack[n].lineWidth,
                               !.fillStyle = c.stack[n].fillStyle,
                               !.font = c.stack[n].font,
                               !.stack = SubSeq(c.stack, 1, n - 1)]
          [] call.op = "lineWidth" -> [r EXCEPT !.lineWidth = call.x]
          [] call.op = "strokeStyle" -> [r EXCEPT !.strokeStyle = call.text]
          [] call.op = "fillStyle" -> [r EXCEPT !.fillStyle = call.text]
          [] call.op = "font" -> [r EXCEPT !.font = call.text]
          [] OTHER -> r

\* The calls are made one after the other: the context has recorded those
\* already made, and the next one is the first it has not.
RECURSIVE RunRest(_, _)
RunRest(c, calls) ==
    IF Len(c.calls) >= Len(calls) THEN c
    ELSE RunRest(Step(c, calls[Len(c.calls) + 1]), calls)

\* The context after the calls of one operation; it records these calls only.
Run(c, calls) == RunRest([c EXCEPT !.calls = NoCalls], calls)

----------------------------------------------------------------------------
(* Primitive drawers: the calls each makes on the context, in order *)

DrawLineNoRestore(lineProps) ==
    <<save, beginPath, moveTo(lineProps.x1, lineProps.y1),
      lineTo(lineProps.x2, lineProps.y2), SetLineWidth(lineProps.lineWidth),
      SetStrokeStyle(lineProps.strokeStyle), stroke>>

DrawLine(lineProps) ==
    <<save, beginPath, moveTo(lineProps.x1, lineProps.y1),
      lineTo(lineProps.x2, lineProps.y2), SetLineWidth(lineProps.lineWidth),
      SetStrokeStyle(lineProps.strokeStyle), stroke, restore>>

DrawText(textProps) ==
    <<save, SetFillStyle(textProps.fillStyle), SetFont(textProps.font),
      fillText(textProps.message, textProps.x, textProps.y), restore>>

----------------------------------------------------------------------------
(* Composite drawers *)

GridStep == 30

\* for (let x = 0; x < canvas.width; x += 30) { drawLine; drawText }
RECURSIVE GridVertical(_, _)
GridVertical(cv, x) ==
    IF x < cv.width
    THEN DrawLine([x1 |-> x, y1 |-> 0, x2 |-> x, y2 |-> cv.height,
                   strokeStyle |-> "#333", lineWidth |-> 2])
         \o DrawText([message |-> ToString(x), x |-> x - 4, y |-> 20,
                      fillStyle |-> "gray", font |-> "12px Arial"])
         \o GridVertical(cv, x + GridStep)
    ELSE <<>>

\* for (let y = 0; y < canvas.height; y += 30) { drawLine; drawText }
RECURSIVE GridHorizontal(_, _)
GridHorizontal(cv, y) ==
    IF y < cv.height
    THEN DrawLine([x1 |-> 0, y1 |-> y, x2 |-> cv.width, y2 |-> y,
                   strokeStyle |-> "#333", lineWidth |-> 2])
         \o DrawText([message |-> ToString(y), x |-> 10, y |-> y + 4,
                      fillStyle |-> "gray", font |-> "12px Arial"])
         \o GridHorizontal(cv, y + GridStep)
    ELSE <<>>

GridInclusive(cv) ==
    GridVertical([cv EXCEPT !.width = @ + 1], 0)
    \o GridHorizontal([cv EXCEPT !.height = @ + 1], 0)

DrawGrid(cv) == GridVertical(cv, 0) \o GridHorizontal(cv, 0)

\* The canvases of the model have even sides, so width / 2 is a whole number.
DrawCenter(cv) ==
    LET centerX == cv.width \div 2
        centerY == cv.height \div 2
    IN  DrawLine([x1 |-> 0, y1 |-> centerY, x2 |-> cv.width, y2 |-> centerY,
                  strokeStyle |-> "darkgray", lineWidth |-> 4])
        \o DrawLine([x1 |-> centerX, y1 |-> 0, x2 |-> centerX,
                     y2 |-> cv.height, strokeStyle |-> "darkgray",
                     lineWidth |-> 4])

----------------------------------------------------------------------------
(* Text metrics and the text bounding box *)

measureText(text) == Call("measureText", 0, 0, text)

Abs(n) == IF n < 0 THEN -n ELSE n

\* The text metrics of the model give boxes of even height, so that
\* textHeight / 2 is a whole number.
GetTextBox(textProps, textMetrics) ==
    LET textTop == Abs(textProps.y - textMetrics.actualBoundingBoxAscent)
        textBottom == Abs(textProps.y + textMetrics.actualBoundingBoxDescent)
        textHeight == textBottom - textTop
        textMid == textTop + (textHeight \div 2)
        textLeft == textProps.x
        textRight == textProps.x + textMetrics.width
    IN  [textTop |-> textTop, textBottom |-> textBottom,
         textHeight |-> textHeight, textMid |-> textMid,
         textLeft |-> textLeft, textRight |-> textRight,
         textWidth |-> textMetrics.width,
         textHorizonalCenter |-> textLeft + (textMetrics.width \div 2),
         textVerticalCenter |-> textMid]

\* The calls of drawTextBox: two assignments, the measurement, five lines
DrawTextBox(cv, textProps, textMetrics) ==
    LET tb == GetTextBox(textProps, textMetrics)
    IN  <<SetFillStyle(textProps.fillStyle), SetFont(textProps.font),
          measureText(textProps.message)>>
        \o DrawLine([x1 |-> 0, y1 |-> tb.textTop, x2 |-> cv.width,
                     y2 |-> tb.textTop, strokeStyle |-> "yellow",
                     lineWidth |-> 2])
        \o DrawLine([x1 |-> 0, y1 |-> tb.textBottom, x2 |-> cv.width,
                     y2 |-> tb.textBottom, strokeStyle |-> "orange",
                     lineWidth |-> 2])
        \o DrawLine([x1 |-> 0, y1 |-> tb.textMid, x2 |-> cv.width,
                     y2 |-> tb.textMid, strokeStyle |-> "red",
                     lineWidth |-> 2])
        \o DrawLine([x1 |-> tb.textLeft, y1 |-> 0, x2 |-> tb.textLeft,
                     y2 |-> cv.height, strokeStyle |-> "cyan",
                     lineWidth |-> 2])
        \o DrawLine([x1 |-> tb.textRight, y1 |-> 0, x2 |-> tb.textRight,
                     y2 |-> cv.height, strokeStyle |-> "chartreuse",
                     lineWidth |-> 2])

----------------------------------------------------------------------------
(* Frame-rate estimator *)

WindowMs == 1000
ThrottleLimit == 10

frameRatePropsInit == [fps |-> 0, times |-> <<>>, counter |-> 0]

\* frameRateProps.times[0] <= (timeStamp - 1000)
StaleStrict(t, timeStamp) == t < timeStamp - WindowMs
Stale(t, timeStamp) == t <= timeStamp - WindowMs

\* while (times.length > 0 && times[0] <= timeStamp - 1000) times.shift();
RECURSIVE ShiftStale(_, _)
ShiftStale(times, timeStamp) ==
    IF Len(times) > 0 /\ Stale(times[1], timeStamp)
    THEN ShiftStale(Tail(times), timeStamp)
    ELSE times

ShiftOnce(times, timeStamp) ==
    IF Len(times) > 0 /\ Stale(times[1], timeStamp) THEN Tail(times) ELSE times

Evict(times, timeStamp) == ShiftStale(times, timeStamp)

\* if (frameRateProps.counter > 10)
ThrottleFiresAtLimit(counter) == counter >= ThrottleLimit
ThrottleFires(counter) == counter > ThrottleLimit

\* The frameRateProps that drawFrameRate leaves
RecordFrame(frp, timeStamp) ==
    LET times == Append(Evict(frp.times, timeStamp), timeStamp)
        counter == frp.counter + 1
    IN  IF ThrottleFires(counter)
        THEN [fps |-> Len(times), times |-> times, counter |-> 0]
        ELSE [fps |-> frp.fps, times |-> times, counter |-> counter]

\* The drawing of drawFrameRate: no save, no restore
FrameRateText(cv, fps) ==
    <<SetFillStyle("yellow"), SetFont("14px monospace"),
      fillText("FPS: " \o ToString(fps), cv.width - 100, cv.height - 30)>>

----------------------------------------------------------------------------
(* Mouse coordinates *)

mousePropsInit == [mouseX |-> 0, mouseY |-> 0]

DrawMouseMove(cv, mp) ==
    <<SetFillStyle("yellow"), SetFont("14px monospace"),
      fillText(ToString(mp.mouseX) \o "," \o ToString(mp.mouseY),
               35, cv.height - 30)>>

----------------------------------------------------------------------------
(* Diagnostics toggles and compositor *)

ToggleNames == {"showGrid", "showCenter", "showTextBox",
                "showMouseCoordinates", "showFPS"}

buttonBarTogglesInit == [t \in ToggleNames |-> TRUE]

\* if (buttonBarToggles.showX)
ShownInverted(toggles, name) == ~toggles[name]
Shown(toggles, name) == toggles[name]

\* The calls of the overlays that are switched on
Overlays(cv, toggles, mp, fps) ==
    (IF Shown(toggles, "showGrid") THEN DrawGrid(cv) ELSE <<>>)
    \o (IF Shown(toggles, "showCenter") THEN DrawCenter(cv) ELSE <<>>)
    \o (IF Shown(toggles, "showMouseCoordinates")
        THEN DrawMouseMove(cv, mp) ELSE <<>>)
    \o (IF Shown(toggles, "showFPS") THEN FrameRateText(cv, fps) ELSE <<>>)

DiagnosticsUnbracketed(cv, toggles, mp, fps) == Overlays(cv, toggles, mp, fps)

\* The calls of drawDiagonstics; fps is the value drawFrameRate displays
Diagnostics(cv, toggles, mp, fps) ==
    <<save>> \o Overlays(cv, toggles, mp, fps) \o <<restore>>

----------------------------------------------------------------------------
(* Inputs of the model *)

\* Styles a caller may have left on the context
DefaultStyle == [strokeStyle |-> "#000000", lineWidth |-> 1,
                 fillStyle |-> "#000000", font |-> "10px sans-serif"]
HostStyle == [strokeStyle |-> "teal", lineWidth |-> 3,
              fillStyle |-> "white", font |-> "25px Arial"]

Context(style, stack) ==
    [strokeStyle |-> style.strokeStyle, lineWidth |-> style.lineWidth,
     fillStyle |-> style.fillStyle, font |-> style.font,
     stack |-> stack, calls |-> <<>>]

Contexts == {Context(s, k) : s \in {DefaultStyle, HostStyle},
                             k \in {<<>>, <<DefaultStyle>>}}

Sizes == {[width |-> w, height |-> h] : w \in {0, 30, 90, 92}, h \in {0, 60, 62}}

LineSpecs == {[x1 |-> 0, y1 |-> 0, x2 |-> 10, y2 |-> 20,
               strokeStyle |-> "red", lineWidth |-> 2],
              [x1 |-> 5, y1 |-> 40, x2 |-> 5, y2 |-> 0,
               strokeStyle |-> "teal", lineWidth |-> 3]}

TextSpecs == {[message |-> "hello", x |-> 10, y |-> 20,
               fillStyle |-> "white", font |-> "25px Arial"],
              [message |-> "", x |-> 0, y |-> 0,
               fillStyle |-> "blue", font |-> "12px monospace"]}

\* What measureText may answer
TextMetrics == {[actualBoundingBoxAscent |-> 10, actualBoundingBoxDescent |-> 2,
                 width |-> 40],
                [actualBoundingBoxAscent |-> 18, actualBoundingBoxDescent |-> 4,
                 width |-> 0]}

MousePoints == {<<0, 0>>, <<12, 34>>}

\* Timestamps of the frame-rate runs: the first, then the steps of the clock
FirstStamps == {0, 70}
Deltas == {100, 250, 1000}

Last(seq) == seq[Len(seq)]

NextStamps(times) ==
    IF times = <<>> THEN FirstStamps
    ELSE {t \in {Last(times) + d : d \in Deltas} : t <= MaxTime}

\* Toggle configurations given to initGrafix; clicks reach the other ones
Configurations ==
    {[t \in ToggleNames |-> FALSE], [t \in ToggleNames |-> TRUE],
     [t \in ToggleNames |-> t \in {"showGrid", "showFPS"}],
     [t \in ToggleNames |-> t \in {"showTextBox", "showMouseCoordinates"}]}

\* Timestamps of the renders
RenderStamps == {0, 500, 1000, 1600}

LaterStamps(times) ==
    {t \in RenderStamps : times = <<>> \/ t > Last(times)}

----------------------------------------------------------------------------
(* Operations *)

UnchangedTime == UNCHANGED <<timeKeeper, genCalls, countFramesCalls>>

UnchangedEvents == UNCHANGED <<lastMove, asked>>

drawLine(lineProps) ==
    /\ ctx' = Run(ctx, DrawLine(lineProps))
    /\ op' = "drawLine"
    /\ UNCHANGED <<frameRateProps, buttonBarToggles, mouseProps, canvas,
                   listening, bar, frameCalls, onGrid>>
    /\ UnchangedTime
    /\ UnchangedEvents

drawText(textProps) ==
    /\ ctx' = Run(ctx, DrawText(textProps))
    /\ op' = "drawText"
    /\ UNCHANGED <<frameRateProps, buttonBarToggles, mouseProps, canvas,
                   listening, bar, frameCalls, onGrid>>
    /\ UnchangedTime
    /\ UnchangedEvents

drawGrid ==
    /\ ctx' = Run(ctx, DrawGrid(canvas))
    /\ op' = "drawGrid"
    /\ UNCHANGED <<frameRateProps, buttonBarToggles, mouseProps, canvas,
                   listening, bar, frameCalls, onGrid>>
    /\ UnchangedTime
    /\ UnchangedEvents

drawCenter ==
    /\ ctx' = Run(ctx, DrawCenter(canvas))
    /\ op' = "drawCenter"
    /\ UNCHANGED <<frameRateProps, buttonBarToggles, mouseProps, canvas,
                   listening, bar, frameCalls, onGrid>>
    /\ UnchangedTime
    /\ UnchangedEvents

drawTextBox(textProps, textMetrics) ==
    /\ ctx' = Run(ctx, DrawTextBox(canvas, textProps, textMetrics))
    /\ op' = "drawTextBox"
    /\ UNCHANGED <<frameRateProps, buttonBarToggles, mouseProps, canvas,
                   listening, bar, frameCalls, onGrid>>
    /\ UnchangedTime
    /\ UnchangedEvents

drawFrameRate(timeStamp) ==
    /\ frameRateProps' = RecordFrame(frameRateProps, timeStamp)
    /\ ctx' = Run(ctx, FrameRateText(canvas, frameRateProps'.fps))
    /\ frameCalls' = frameCalls + 1
    /\ onGrid' = (onGrid /\ timeStamp = 100 * frameCalls)
    /\ op' = "drawFrameRate"
    /\ UNCHANGED <<buttonBarToggles, mouseProps, canvas, listening, bar>>
    /\ UnchangedTime
    /\ UnchangedEvents

drawDiagonsticsAlwaysRecords(timeStamp) ==
    /\ frameRateProps' = RecordFrame(frameRateProps, timeStamp)
    /\ frameCalls' = frameCalls + 1
    /\ onGrid' = (onGrid /\ timeStamp = 100 * frameCalls)
    /\ ctx' = Run(ctx, Diagnostics(canvas, buttonBarToggles, mouseProps,
                                    frameRateProps'.fps))
    /\ op' = "drawDiagonstics"
    /\ UNCHANGED <<buttonBarToggles, mouseProps, canvas, listening, bar>>
    /\ UnchangedTime
    /\ UnchangedEvents

drawDiagonstics(timeStamp) ==
    /\ IF buttonBarToggles.showFPS
       THEN /\ frameRateProps' = RecordFrame(frameRateProps, timeStamp)
            /\ frameCalls' = frameCalls + 1
            /\ onGrid' = (onGrid /\ timeStamp = 100 * frameCalls)
       ELSE UNCHANGED <<frameRateProps, frameCalls, onGrid>>
    /\ ctx' = Run(ctx, Diagnostics(canvas, buttonBarToggles, mouseProps,
                                    frameRateProps'.fps))
    /\ op' = "drawDiagonstics"
    /\ UNCHANGED <<buttonBarToggles, mouseProps, canvas, listening, bar>>
    /\ UnchangedTime
    /\ UnchangedEvents

initGrafix(bbt) ==
    /\ buttonBarToggles' = [buttonBarToggles EXCEPT
                              !.showCenter = bbt.showCenter,
                              !.showFPS = bbt.showFPS,
                              !.showGrid = bbt.showGrid,
                              !.showMouseCoordinates = bbt.showMouseCoordinates,
                              !.showTextBox = bbt.showTextBox]
    /\ listening' = TRUE
    /\ asked' = bbt
    /\ UNCHANGED lastMove
    /\ op' = "initGrafix"
    /\ ctx' = [ctx EXCEPT !.calls = NoCalls]
    /\ UNCHANGED <<frameRateProps, mouseProps, canvas, bar, frameCalls, onGrid>>
    /\ UnchangedTime

buttonBar ==
    /\ bar' = TRUE
    /\ op' = "buttonBar"
    /\ ctx' = [ctx EXCEPT !.calls = NoCalls]
    /\ UNCHANGED <<frameRateProps, buttonBarToggles, mouseProps, canvas,
                   listening, frameCalls, onGrid>>
    /\ UnchangedTime
    /\ UnchangedEvents

\* The click listener of addButtonToBar
click(toggle) ==
    /\ bar
    /\ buttonBarToggles' = [buttonBarToggles EXCEPT ![toggle] = ~@]
    /\ asked' = [asked EXCEPT ![toggle] = ~@]
    /\ UNCHANGED lastMove
    /\ op' = "click"
    /\ ctx' = [ctx EXCEPT !.calls = NoCalls]
    /\ UNCHANGED <<frameRateProps, mouseProps, canvas, listening, bar,
                   frameCalls, onGrid>>
    /\ UnchangedTime

\* The mousemove listener of initGrafix
mousemove(e) ==
    /\ listening
    /\ mouseProps' = [mouseProps EXCEPT !.mouseX = e[1], !.mouseY = e[2]]
    /\ lastMove' = e
    /\ UNCHANGED asked
    /\ op' = "mousemove"
    /\ ctx' = [ctx EXCEPT !.calls = NoCalls]
    /\ UNCHANGED <<frameRateProps, buttonBarToggles, canvas, listening, bar,
                   frameCalls, onGrid>>
    /\ UnchangedTime

----------------------------------------------------------------------------
(* Specifications *)

InitState ==
    /\ timeKeeper = timeKeeperInit
    /\ frameRateProps = frameRatePropsInit
    /\ buttonBarToggles = buttonBarTogglesInit
    /\ mouseProps = mousePropsInit
    /\ listening = FALSE
    /\ bar = FALSE
    /\ op = "load"
    /\ genCalls = 0
    /\ countFramesCalls = 0
    /\ frameCalls = 0
    /\ onGrid = TRUE
    /\ lastMove = <<0, 0>>
    /\ asked = buttonBarTogglesInit

\* The time keeper alone
InitTime ==
    /\ InitState
    /\ canvas = [width |-> 90, height |-> 60]
    /\ ctx = Context(DefaultStyle, <<>>)

NextTime ==
    \/ initTimeKeeper
    \/ countGenerations
    \/ countFrames

SpecTime == InitTime /\ [][NextTime]_vars

\* drawFrameRate called frame after frame
InitFrameRate ==
    /\ InitState
    /\ canvas = [width |-> 90, height |-> 60]
    /\ ctx \in Contexts

NextFrameRate ==
    \E timeStamp \in NextStamps(frameRateProps.times) : drawFrameRate(timeStamp)

SpecFrameRate == InitFrameRate /\ [][NextFrameRate]_vars

\* The drawers called on any canvas and any context
InitDrawers ==
    /\ InitState
    /\ canvas \in Sizes
    /\ ctx \in Contexts

NextDrawers ==
    \/ \E lineProps \in LineSpecs : drawLine(lineProps)
    \/ \E textProps \in TextSpecs : drawText(textProps)
    \/ drawGrid
    \/ drawCenter
    \/ \E textProps \in TextSpecs, textMetrics \in TextMetrics :
          drawTextBox(textProps, textMetrics)

SpecDrawers == InitDrawers /\ [][NextDrawers]_vars

\* The page: initialisation, events and renders
Init ==
    /\ InitState
    /\ canvas = [width |-> 60, height |-> 30]
    /\ ctx \in {Context(DefaultStyle, <<>>), Context(HostStyle, <<DefaultStyle>>)}

Next ==
    \/ \E bbt \in Configurations : initGrafix(bbt)
    \/ buttonBar
    \/ \E toggle \in ToggleNames : click(toggle)
    \/ \E e \in MousePoints : mousemove(e)
    \/ \E timeStamp \in LaterStamps(frameRateProps.times) :
          drawDiagonstics(timeStamp)

Spec == Init /\ [][Next]_vars

----------------------------------------------------------------------------
(* Properties of the frame-rate estimator, under SpecFrameRate *)

ThrottleStep ==
    frameCalls' = frameCalls + 1 =>
        IF frameRateProps.counter + 1 > 10
        THEN /\ frameRateProps'.fps = Len(frameRateProps'.times)
             /\ frameRateProps'.counter = 0
        ELSE /\ frameRateProps'.fps = frameRateProps.fps
             /\ frameRateProps'.counter = frameRateProps.counter + 1

\* C5: the throttled update of fps: ThrottleStep on every call; after n calls
\* the counter is n mod 11; fps is still 0 until the throttle first fires, on
\* the 11th call.
C5_ThrottledFps ==
    /\ [][ThrottleStep]_vars
    /\ [](frameRateProps.counter = frameCalls % 11)
    /\ [](frameCalls <= 10 => frameRateProps.fps = 0)

\* C5 witness: the throttle has fired for the second time.
C5_FiredTwice ==
    /\ frameCalls = 22
    /\ frameRateProps.counter = 0
    /\ frameRateProps.fps = Len(frameRateProps.times)
    /\ frameRateProps.fps > 0

----------------------------------------------------------------------------
(* Properties of the time keeper, under SpecTime *)

\* C2 as claimed: a counter at MAX_SAFE_INTEGER - 1 advances to
\* MAX_SAFE_INTEGER, and a counter at MAX_SAFE_INTEGER advances to 0.
C2_WrapAfterMax ==
    [][/\ op' = "countGenerations" =>
            /\ timeKeeper.generationCount = MAX_SAFE_INTEGER - 1
                  => timeKeeper'.generationCount = MAX_SAFE_INTEGER
            /\ timeKeeper.generationCount = MAX_SAFE_INTEGER
                  => timeKeeper'.generationCount = 0
       /\ op' = "countFrames" =>
            /\ timeKeeper.frameCount = MAX_SAFE_INTEGER - 1
                  => timeKeeper'.frameCount = MAX_SAFE_INTEGER
            /\ timeKeeper.frameCount = MAX_SAFE_INTEGER
                  => timeKeeper'.frameCount = 0]_vars

\* C2 amended: a counter at MAX_SAFE_INTEGER - 1 advances to 0 and from there
\* to 1; no counter ever holds MAX_SAFE_INTEGER.
C2_WrapOnReachingMax ==
    /\ [][/\ op' = "countGenerations" =>
              /\ timeKeeper.generationCount = MAX_SAFE_INTEGER - 1
                    => timeKeeper'.generationCount = 0
              /\ timeKeeper.generationCount = 0
                    => timeKeeper'.generationCount = 1
          /\ op' = "countFrames" =>
              /\ timeKeeper.frameCount = MAX_SAFE_INTEGER - 1
                    => timeKeeper'.frameCount = 0
              /\ timeKeeper.frameCount = 0
                    => timeKeeper'.frameCount = 1]_vars
    /\ [](/\ timeKeeper.generationCount < MAX_SAFE_INTEGER
          /\ timeKeeper.frameCount < MAX_SAFE_INTEGER)

\* C2 witness: the generation counter wrapped and advanced once more.
C2_Wrapped ==
    /\ op = "countGenerations"
    /\ genCalls = MAX_SAFE_INTEGER + 1
    /\ timeKeeper.generationCount = 1

\* C3: cycleCount is floor(generationCount / 4) in every state, also past
\* the wrap.
C3_CycleOfGeneration ==
    /\ timeKeeper.cycleCount * 4 <= timeKeeper.generationCount
    /\ timeKeeper.generationCount < timeKeeper.cycleCount * 4 + 4

\* C3 witness: the counter wrapped and a cycle was completed again.
C3_CycleAfterWrap ==
    /\ genCalls > MAX_SAFE_INTEGER
    /\ timeKeeper.cycleCount = 1

\* C4 as claimed: 4k countGenerations calls from the zero state give
\* cycleCount k, for every k.
C4_CycleOfCalls ==
    genCalls % 4 = 0 => timeKeeper.cycleCount = genCalls \div 4

\* C4 amended: 4k countGenerations calls from the zero state give cycleCount
\* k, for every k with 4k < MAX_SAFE_INTEGER.
C4_CycleOfCallsBelowWrap ==
    (genCalls % 4 = 0 /\ genCalls < MAX_SAFE_INTEGER)
        => timeKeeper.cycleCount = genCalls \div 4

\* C4 witness: 8 calls were made, below the wrap.
C4_TwoCycles ==
    /\ genCalls = 8
    /\ genCalls < MAX_SAFE_INTEGER
    /\ timeKeeper.cycleCount = 2

----------------------------------------------------------------------------
(* Properties of the drawers, under SpecDrawers *)

\* The positions at which calls holds the given call
Places(calls, call) == {i \in 1..Len(calls) : calls[i] = call}

\* The number of calls of one kind
Count(calls, name) == Cardinality({i \in 1..Len(calls) : calls[i].op = name})

\* The places where a line from (x1, y1) to (x2, y2) is stroked
LinePlaces(calls, x1, y1, x2, y2) ==
    {i \in 1..Len(calls) - 4 :
        /\ calls[i] = moveTo(x1, y1)
        /\ calls[i + 1] = lineTo(x2, y2)
        /\ calls[i + 4] = stroke}

\* 0, 30, 60, ... below the limit
Marks(limit) == {v \in 0..limit - 1 : v % 30 = 0}

\* C8: drawGrid strokes exactly one vertical line and writes one label for
\* each x in {0, 30, 60, ...} below the width, one horizontal line and one
\* label for each such y below the height, and nothing else: on a 90 by 60
\* canvas 3 vertical lines and 2 horizontal ones.
C8_GridLines ==
    op = "drawGrid" =>
        /\ \A x \in Marks(canvas.width) :
              /\ Cardinality(LinePlaces(ctx.calls, x, 0, x, canvas.height)) = 1
              /\ Cardinality(Places(ctx.calls,
                                    fillText(ToString(x), x - 4, 20))) = 1
        /\ \A y \in Marks(canvas.height) :
              /\ Cardinality(LinePlaces(ctx.calls, 0, y, canvas.width, y)) = 1
              /\ Cardinality(Places(ctx.calls,
                                    fillText(ToString(y), 10, y + 4))) = 1
        /\ Count(ctx.calls, "stroke")
              = Cardinality(Marks(canvas.width)) + Cardinality(Marks(canvas.height))
        /\ Count(ctx.calls, "lineTo") = Count(ctx.calls, "stroke")
        /\ Count(ctx.calls, "fillText") = Count(ctx.calls, "stroke")
        /\ (canvas.width = 90 /\ canvas.height = 60) =>
              /\ \A x \in {0, 30, 60} :
                    LinePlaces(ctx.calls, x, 0, x, 60) # {}
              /\ \A y \in {0, 30} :
                    LinePlaces(ctx.calls, 0, y, 90, y) # {}
              /\ Count(ctx.calls, "stroke") = 5

\* C8 witness: the grid was drawn on a 90 by 60 canvas.
C8_GridOn90By60 ==
    /\ op = "drawGrid"
    /\ canvas = [width |-> 90, height |-> 60]
    /\ Count(ctx.calls, "stroke") = 5

\* C9: drawLine and drawText leave the style state of the context
\* (strokeStyle, lineWidth, fillStyle, font) and its save stack as they were.
C9_PrimitivesKeepStyle ==
    [][op' \in {"drawLine", "drawText"} =>
          /\ StyleOf(ctx') = StyleOf(ctx)
          /\ ctx'.stack = ctx.stack]_vars

\* C9 witness: a line was drawn in a stroke style and a width that are not
\* those of the context, on a context with a saved state.
C9_LineInOtherStyle ==
    /\ op = "drawLine"
    /\ Places(ctx.calls, SetStrokeStyle("red")) # {}
    /\ Places(ctx.calls, SetLineWidth(2)) # {}
    /\ ctx.strokeStyle = "teal"
    /\ ctx.lineWidth = 3
    /\ Len(ctx.stack) = 1

----------------------------------------------------------------------------
(* Properties of the diagnostics compositor, under Spec *)

\* C7: with all five toggles false drawDiagonstics calls no drawer: the
\* context sees one save and one restore, and nothing else.
C7_NothingDrawn ==
    (op = "drawDiagonstics" /\ \A t \in ToggleNames : ~buttonBarToggles[t])
        => ctx.calls = <<save, restore>>

\* C7 witness: a render with all toggles false.
C7_RenderAllOff ==
    /\ op = "drawDiagonstics"
    /\ \A t \in ToggleNames : ~buttonBarToggles[t]

\* The saves less the restores among the first k calls
Depth(calls, k) ==
    Cardinality({i \in 1..k : calls[i].op = "save"})
    - Cardinality({i \in 1..k : calls[i].op = "restore"})

\* The calls begin with a save, end with the restore that matches it, and
\* all the others come between the two.
Bracketed(calls) ==
    /\ Len(calls) >= 2
    /\ calls[1] = save
    /\ calls[Len(calls)] = restore
    /\ \A k \in 1..Len(calls) - 1 : Depth(calls, k) >= 1
    /\ Depth(calls, Len(calls)) = 0

\* C10: whatever the toggles, drawDiagonstics makes all its calls between one
\* outer save and the matching restore, and leaves the style state and the
\* save stack of the context as they were.
C10_DiagnosticsKeepStyle ==
    [][op' = "drawDiagonstics" =>
          /\ Bracketed(ctx'.calls)
          /\ StyleOf(ctx') = StyleOf(ctx)
          /\ ctx'.stack = ctx.stack]_vars

\* C10 witness: a render drew the mouse coordinates and the frame rate, which
\* assign fillStyle and font with no save of their own, on a context whose
\* fillStyle and font are others.
C10_OverlaysAssignedStyle ==
    /\ op = "drawDiagonstics"
    /\ buttonBarToggles.showMouseCoordinates
    /\ buttonBarToggles.showFPS
    /\ Count(ctx.calls, "fillStyle") >= 2
    /\ Count(ctx.calls, "save") = 1
    /\ ctx.fillStyle = "white"
    /\ ctx.font = "25px Arial"

----------------------------------------------------------------------------
(* drawTextBox, under SpecDrawers *)

\* C11: drawTextBox saves and restores the context: after it returns, the
\* style state of the context (fillStyle and font in particular) and its
\* save stack are as they were before the call, for any textProps.
C11_TextBoxKeepsStyle ==
    [][op' = "drawTextBox" =>
          /\ StyleOf(ctx') = StyleOf(ctx)
          /\ ctx'.stack = ctx.stack]_vars

----------------------------------------------------------------------------
(* Independence of the two counters, under SpecTime *)

\* C12: countFrames changes frameCount only and countGenerations changes
\* generationCount and cycleCount only, so m countFrames calls and n
\* countGenerations calls from the zero state, in any order and below the
\* wrap, end with frameCount m and generationCount n.
C12_IndependentCounters ==
    /\ [][/\ op' = "countFrames" =>
              /\ timeKeeper'.generationCount = timeKeeper.generationCount
              /\ timeKeeper'.cycleCount = timeKeeper.cycleCount
          /\ op' = "countGenerations" =>
              timeKeeper'.frameCount = timeKeeper.frameCount]_vars
    /\ [](countFramesCalls < MAX_SAFE_INTEGER
            => timeKeeper.frameCount = countFramesCalls)
    /\ [](genCalls < MAX_SAFE_INTEGER
            => timeKeeper.generationCount = genCalls)

\* C12 witness: 3 countFrames calls and 5 countGenerations calls were made,
\* the last of them a countFrames call after a countGenerations call.
C12_Interleaved ==
    /\ op = "countFrames"
    /\ countFramesCalls = 3
    /\ genCalls = 5
    /\ timeKeeper = [frameCount |-> 3, generationCount |-> 5, cycleCount |-> 1]

----------------------------------------------------------------------------
(* What drawDiagonstics leaves alone, under Spec *)

\* C14: drawDiagonstics never changes a toggle, the mouse position or the
\* time keeper, and with showFPS false it leaves times, fps and the throttle
\* counter as they were: no timestamp is recorded for that frame.
C14_DiagnosticsFrame ==
    [][op' = "drawDiagonstics" =>
          /\ buttonBarToggles' = buttonBarToggles
          /\ mouseProps' = mouseProps
          /\ timeKeeper' = timeKeeper
          /\ ~buttonBarToggles.showFPS => frameRateProps' = frameRateProps
          /\ buttonBarToggles.showFPS =>
                Len(frameRateProps'.times) >= 1]_vars

\* C14 witness: a frame rendered with the FPS overlay off, other overlays on,
\* after frames were recorded and the mouse had moved.
C14_RenderWithFpsOff ==
    /\ op = "drawDiagonstics"
    /\ ~buttonBarToggles.showFPS
    /\ buttonBarToggles.showGrid
    /\ Len(ctx.calls) > 2
    /\ frameRateProps.times # <<>>
    /\ mouseProps.mouseX # 0

----------------------------------------------------------------------------
(* Events and renders, under Spec *)

\* What a render drew, read from the calls it made
GridDrawn(calls) == Places(calls, SetStrokeStyle("#333")) # {}
CenterDrawn(calls) == Places(calls, SetStrokeStyle("darkgray")) # {}
TextBoxDrawn(calls) == Count(calls, "measureText") > 0
MouseTexts(calls) ==
    {calls[i].text : i \in {j \in 1..Len(calls) :
                              calls[j].op = "fillText" /\ calls[j].x = 35}}
FpsTexts(calls) ==
    {calls[i].text : i \in {j \in 1..Len(calls) :
                              /\ calls[j].op = "fillText"
                              /\ calls[j].x = canvas.width - 100
                              /\ calls[j].y = canvas.height - 30}}

\* The render drew the grid, the center, the mouse coordinates and the frame
\* rate where asked for and only there, and the coordinates it wrote are
\* those of the latest mousemove event.
FourOverlaysAsAsked ==
    /\ GridDrawn(ctx.calls) <=> asked.showGrid
    /\ CenterDrawn(ctx.calls) <=> asked.showCenter
    /\ MouseTexts(ctx.calls) =
          IF asked.showMouseCoordinates
          THEN {ToString(lastMove[1]) \o "," \o ToString(lastMove[2])}
          ELSE {}
    /\ FpsTexts(ctx.calls) =
          IF asked.showFPS
          THEN {"FPS: " \o ToString(frameRateProps.fps)}
          ELSE {}

\* C13 as claimed: each render writes the coordinates of the latest mousemove
\* event and draws exactly the overlays whose toggle, as initGrafix and the
\* clicks before the render left it, is true; a click negates its own toggle.
C13_LatestWriteWins ==
    op = "drawDiagonstics" =>
        /\ FourOverlaysAsAsked
        /\ TextBoxDrawn(ctx.calls) <=> asked.showTextBox

\* What does hold of every render: the same for the grid, the center, the
\* mouse coordinates and the frame rate, the toggles being what initGrafix
\* and the clicks left; the text box is drawn by no render.
RenderShowsLatestOfFour ==
    op = "drawDiagonstics" =>
        /\ FourOverlaysAsAsked
        /\ ~TextBoxDrawn(ctx.calls)
        /\ buttonBarToggles = asked

\* A render after a mousemove event and after clicks that left the toggles in
\* a configuration initGrafix was not given.
RenderAfterEvents ==
    /\ op = "drawDiagonstics"
    /\ lastMove = <<12, 34>>
    /\ MouseTexts(ctx.calls) = {"12,34"}
    /\ ~asked.showGrid
    /\ asked.showCenter
    /\ asked.showFPS
    /\ ~asked.showTextBox

====
